---- MODULE Spec2Model ----
(***************************************************************************)
(* L11 Semantic OS: the encoding gate (encoding_gate v1.0) and the SIC     *)
(* kernel (sic_kernel v0.4.1): gate -> entropy provider with zlib fallback  *)
(* -> safety band -> circuit breaker.                                       *)
(*                                                                         *)
(* Floats are fixed-point integers in units of 1/Scale; float('inf') is    *)
(* the value Infinity, larger than every finite value of the model, so     *)
(* that >= and < behave as they do on IEEE doubles.                         *)
(***************************************************************************)
EXTENDS Integers, Sequences, FiniteSets, TLC

VARIABLES regex, pc, op, args, calls, provider_exc, ret, result, exc, decision, raised,
          metrics, mret, threads, completed

\* the state of the gate and kernel calls
kvars == <<regex, pc, op, args, calls, provider_exc, ret, result, exc, decision, raised>>

\* the state of one EncodingGateMetrics object and of its callers
mvars == <<metrics, mret, threads, completed>>

vars == <<kvars, mvars>>

(***************************************************************************)
(* Bounds of the model.                                                    *)
(***************************************************************************)
\* longest explicit prefix of code points of a text
MaxChars == 3
\* padding that brings a 3-letter text to the gate's 100-byte limit
LongPad == 97
\* padding of the 1000-byte payloads
HugePad == 1000
\* how many distinct values uuid.uuid4() can return
MaxUuid == 2
\* how many runs of equal code points a text handed to the gate alone has
MaxRuns == 2
\* how long such a run is, if it is not a single code point
MaxRunLen == 3
\* how many code points the block of a periodic text has
MaxBlock == 3
\* how many times a periodic text repeats its block
RepeatCount == 23
\* how many record_input calls one behaviour makes
MaxInputs == 4
\* how many record_lockdown calls one behaviour makes
MaxLockdowns == 2
\* how many threads call record_input on the same object
NumThreads == 2

(***************************************************************************)
(* Fixed-point arithmetic.                                                 *)
(***************************************************************************)
Scale == 10^5

\* float('inf')
Infinity == 2000000000

\* ln(2) in units of 1/Scale
Ln2 == (69315 * (Scale \div 1000)) \div 100

RECURSIVE Pow2Below(_, _)
\* the largest power of two p * 2^j that is <= x
Pow2Below(x, p) == IF 2 * p <= x THEN Pow2Below(x, 2 * p) ELSE p

RECURSIVE Log2Of(_)
\* log2 of a power of two
Log2Of(p) == IF p <= 1 THEN 0 ELSE 1 + Log2Of(p \div 2)

\* math.log(x) for an integer x >= 1, in units of 1/Scale:
\* x = m * 2^k, 1 <= m < 2, ln m = 2 atanh((m-1)/(m+1)) by its series.
Ln(x) ==
    LET p  == Pow2Below(x, 1)
        z  == ((x - p) * Scale) \div (x + p)
        z2 == (z * z) \div Scale
        t3 == (z * z2) \div Scale
        t5 == (t3 * z2) \div Scale
        t7 == (t5 * z2) \div Scale
        t9 == (t7 * z2) \div Scale
    IN  Log2Of(p) * Ln2
          + 2 * (z + t3 \div 3 + t5 \div 5 + t7 \div 7 + t9 \div 9)

(***************************************************************************)
(* Constants of the kernel.                                                *)
(***************************************************************************)
\* ENTROPY_FACTOR = 0.18, as the fraction EntropyFactorNum / 100
EntropyFactorNum == 18

THRESHOLD_ASSET == (276 * Scale) \div 100

THRESHOLD_CRITICAL == (414 * Scale) \div 100

THRESHOLD_FAILSAFE_LOCKDOWN == (500 * Scale) \div 100

SafetyLevel == {"NOISE", "ASSET", "CRITICAL", "FAILSAFE_LOCKDOWN"}

\* EntropyProvider.<member>.value
EntropyProvider ==
    [OPENAI |-> "openai", ZLIB_FALLBACK |-> "zlib_fallback",
     ZLIB_PRIMARY |-> "zlib_primary"]

\* mutant: one wire string is abbreviated
EncodingUnmeasurableReasonRenamed ==
    [OK |-> "OK",
     UTF8_DECODE_FAILURE |-> "SICT_UTF8_DECODE_FAILURE",
     NORMALIZATION_AMBIGUITY |-> "SICT_NORMALIZATION_AMBIGUITY",
     EMOJI_DENSITY_EXCEEDED |-> "SICT_EMOJI_DENSITY_EXCEEDED",
     RANDOM_NOISE_SIGNATURE |-> "SICT_RANDOM_NOISE",
     ENTROPY_OUT_OF_BOUNDS |-> "SICT_ENTROPY_OUT_OF_BOUNDS"]

\* EncodingUnmeasurableReason.<member>.value: the strings on the wire
EncodingUnmeasurableReason ==
    [OK |-> "OK",
     UTF8_DECODE_FAILURE |-> "SICT_UTF8_DECODE_FAILURE",
     NORMALIZATION_AMBIGUITY |-> "SICT_NORMALIZATION_AMBIGUITY",
     EMOJI_DENSITY_EXCEEDED |-> "SICT_EMOJI_DENSITY_EXCEEDED",
     RANDOM_NOISE_SIGNATURE |-> "SICT_RANDOM_NOISE_SIGNATURE",
     ENTROPY_OUT_OF_BOUNDS |-> "SICT_ENTROPY_OUT_OF_BOUNDS"]

(***************************************************************************)
(* Texts.  A code point is modelled by the properties the gate reads off   *)
(* it; each class stands for a concrete code point:                        *)
(*   letter    U+0061..7A   named, printable, 1 byte (any ASCII letter)    *)
(*   emoji     U+1F525      named, printable, \p{Emoji}, 4 bytes           *)
(*   control   U+0007       no name, not printable, 1 byte                 *)
(*   compat    U+FB01       named, printable, NFKC differs from NFC, 3 b.  *)
(*   format    U+200B       named, not printable, 3 bytes                  *)
(*   surrogate U+D800       a lone surrogate: str.encode('utf-8') raises   *)
(* A text is a prefix of at most MaxChars code points followed by `pad`    *)
(* letters; zlen is the length zlib.compress gives for its UTF-8 bytes.    *)
(***************************************************************************)
CharClass == {"letter", "emoji", "control", "compat", "format", "surrogate"}

\* unicodedata.name(c, None) is not None
HasName(c) == c \in {"letter", "emoji", "compat", "format"}

\* str.isprintable
IsPrintable(c) == c \in {"letter", "emoji", "compat"}

\* regex \p{Emoji}
IsEmoji(c) == c = "emoji"

\* unicodedata.normalize('NFKC', c) differs from unicodedata.normalize('NFC', c)
NfkcDiffers(c) == c = "compat"

\* len(c.encode('utf-8'))
Utf8Len(c) ==
    CASE c = "letter" -> 1
      [] c = "control" -> 1
      [] c = "emoji" -> 4
      [] OTHER -> 3

RECURSIVE SumUtf8(_)
SumUtf8(s) == IF s = <<>> THEN 0 ELSE Utf8Len(Head(s)) + SumUtf8(Tail(s))

\* number of code points of s that satisfy P
CountIf(s, P(_)) == Cardinality({i \in DOMAIN s : P(s[i])})

\* len(text)
TextLen(t) == Len(t.chars) + t.pad

\* len(text.encode('utf-8'))
ByteLen(t) == SumUtf8(t.chars) + t.pad

\* text.encode('utf-8') raises UnicodeEncodeError
EncodeFails(t) == \E i \in DOMAIN t.chars : t.chars[i] = "surrogate"

(***************************************************************************)
(* zlib.compress.  The model does not keep the bytes of a text, so the     *)
(* compressed length is an attribute of the payload, chosen with it from   *)
(* the lengths zlib can return for n input bytes.  Lower end: the 2-byte   *)
(* header, the 4-byte Adler-32 and the shortest deflate stream (b'' gives  *)
(* 8 bytes, 1 to 4 bytes give n + 8 since no match is possible, longer     *)
(* inputs at least 11).  Upper end: one stored block, n + 11.              *)
(***************************************************************************)
ZlibMin(n) == IF n < 5 THEN n + 8 ELSE 11

ZlibMax(n) == n + 11

\* the compressed lengths the model tries for n input bytes: both sides of
\* the gate's 0.05 bound, a ratio of one half, n + 8 (every byte a
\* fixed-Huffman literal) and the stored block
ZlibLens(n) ==
    IF n = 0 THEN {8}
    ELSE {c \in {(n - 1) \div 20, (n + 19) \div 20, n \div 2, n + 8, ZlibMax(n)} :
            ZlibMin(n) <= c /\ c <= ZlibMax(n)}

\* len(zlib.compress(input_bytes)): deterministic, the same for the gate
\* and for the estimator
zlib_compress_len(b) == b.zlen

RECURSIVE SeqsUpTo(_, _)
\* the sequences over S of length at most n
SeqsUpTo(S, n) ==
    IF n = 0 THEN {<<>>}
    ELSE LET shorter == SeqsUpTo(S, n - 1)
         IN  shorter \cup
               {Append(s, x) : s \in {q \in shorter : Len(q) = n - 1}, x \in S}

Pads == {0, LongPad, HugePad}

\* the payloads with prefix cs and padding p
Payloads(cs, p) ==
    {[valid |-> TRUE, chars |-> cs, pad |-> p, zlen |-> z] :
        z \in ZlibLens(SumUtf8(cs) + p)}

\* a str with a lone surrogate: it has no UTF-8 encoding, hence no zlen
LoneSurrogateText ==
    [valid |-> TRUE, chars |-> <<"letter", "surrogate">>, pad |-> 0, zlen |-> 0]

\* the Python str values a caller can hand to the kernel
Texts ==
    UNION {Payloads(cs, p) :
             cs \in SeqsUpTo(CharClass \ {"surrogate"}, MaxChars), p \in Pads}
      \cup {LoneSurrogateText}

\* bytes that are not UTF-8 (0xFF 0xFE)
InvalidBytes == [valid |-> FALSE, chars |-> <<>>, pad |-> 0, zlen |-> 10]

\* the bytes values a caller can hand to the gate: the encodings of the
\* texts that encode, and bytes that do not decode
ByteStrings == {t \in Texts : ~EncodeFails(t)} \cup {InvalidBytes}

(***************************************************************************)
(* encoding_gate: is_encoding_unmeasurable                                 *)
(***************************************************************************)
RECURSIVE ScanUnknownNoReset(_, _)
\* mutant: a named code point does not reset the counter
ScanUnknownNoReset(s, consecutive_unknown) ==
    IF s = <<>> THEN FALSE
    ELSE IF ~HasName(Head(s))
         THEN IF consecutive_unknown + 1 >= 3 THEN TRUE
              ELSE ScanUnknownNoReset(Tail(s), consecutive_unknown + 1)
         ELSE ScanUnknownNoReset(Tail(s), consecutive_unknown)

RECURSIVE ScanUnknown(_, _)
\* the loop over the code points of the prefix: TRUE when consecutive_unknown
\* reaches 3.  (The except ValueError branch cannot be taken:
\* unicodedata.name with a default does not raise.)
ScanUnknown(s, consecutive_unknown) ==
    IF s = <<>> THEN FALSE
    ELSE IF ~HasName(Head(s))
         THEN IF consecutive_unknown + 1 >= 3 THEN TRUE
              ELSE ScanUnknown(Tail(s), consecutive_unknown + 1)
         ELSE ScanUnknown(Tail(s), 0)

\* (d): the padding is letters, which are named and only reset the counter
RandomNoise(b) == ScanUnknown(b.chars, 0)

\* (b): nfc != nfkc and non_printable_ratio > 0.10
NormalizationAmbiguity(b) ==
    /\ \E i \in DOMAIN b.chars : NfkcDiffers(b.chars[i])
    /\ 10 * CountIf(b.chars, LAMBDA c : ~IsPrintable(c)) > TextLen(b)

\* (c): regex is not None and emoji_ratio > 0.30
EmojiDensity(b, have_regex) ==
    /\ have_regex
    /\ 10 * CountIf(b.chars, IsEmoji) > 3 * TextLen(b)

\* (e): len(input_bytes) >= 100 and (ratio < 0.05 or ratio > 1.2)
OutOfBounds(b) ==
    /\ ByteLen(b) >= 100
    /\ \/ 20 * zlib_compress_len(b) < ByteLen(b)
       \/ 5 * zlib_compress_len(b) > 6 * ByteLen(b)

\* mutant: the random-noise scan runs before the normalization check
is_encoding_unmeasurable_noise_first(b, have_regex) ==
    IF ~b.valid
    THEN <<TRUE, EncodingUnmeasurableReason.UTF8_DECODE_FAILURE>>
    ELSE IF TextLen(b) = 0
    THEN <<FALSE, EncodingUnmeasurableReason.OK>>
    ELSE IF RandomNoise(b)
    THEN <<TRUE, EncodingUnmeasurableReason.RANDOM_NOISE_SIGNATURE>>
    ELSE IF NormalizationAmbiguity(b)
    THEN <<TRUE, EncodingUnmeasurableReason.NORMALIZATION_AMBIGUITY>>
    ELSE IF EmojiDensity(b, have_regex)
    THEN <<TRUE, EncodingUnmeasurableReason.EMOJI_DENSITY_EXCEEDED>>
    ELSE IF OutOfBounds(b)
    THEN <<TRUE, EncodingUnmeasurableReason.ENTROPY_OUT_OF_BOUNDS>>
    ELSE <<FALSE, EncodingUnmeasurableReason.OK>>

\* is_encoding_unmeasurable(input_bytes) -> (is_unmeasurable, reason_code)
is_encoding_unmeasurable(b, have_regex) ==
    IF ~b.valid
    THEN <<TRUE, EncodingUnmeasurableReason.UTF8_DECODE_FAILURE>>
    ELSE IF TextLen(b) = 0
    THEN <<FALSE, EncodingUnmeasurableReason.OK>>
    ELSE IF NormalizationAmbiguity(b)
    THEN <<TRUE, EncodingUnmeasurableReason.NORMALIZATION_AMBIGUITY>>
    ELSE IF EmojiDensity(b, have_regex)
    THEN <<TRUE, EncodingUnmeasurableReason.EMOJI_DENSITY_EXCEEDED>>
    ELSE IF RandomNoise(b)
    THEN <<TRUE, EncodingUnmeasurableReason.RANDOM_NOISE_SIGNATURE>>
    ELSE IF OutOfBounds(b)
    THEN <<TRUE, EncodingUnmeasurableReason.ENTROPY_OUT_OF_BOUNDS>>
    ELSE <<FALSE, EncodingUnmeasurableReason.OK>>

\* get_rejection_response(reason_code): the fields that vary
get_rejection_response(reason_code) ==
    [shape |-> "rejection", error |-> reason_code]

\* mutant: the lockdown payload repeats its status where the reason belongs
get_lockdown_response_no_reason(reason_code, incident_id) ==
    [shape |-> "lockdown", status |-> "FAILSAFE_LOCKDOWN",
     reason |-> "FAILSAFE_LOCKDOWN", incident_id |-> incident_id,
     notification_sent |-> TRUE, ticket_created |-> TRUE,
     review_deadline |-> "72h"]

\* get_lockdown_response(reason_code, incident_id)
get_lockdown_response(reason_code, incident_id) ==
    [shape |-> "lockdown", status |-> "FAILSAFE_LOCKDOWN",
     reason |-> reason_code, incident_id |-> incident_id,
     notification_sent |-> TRUE, ticket_created |-> TRUE,
     review_deadline |-> "72h"]

(***************************************************************************)
(* sic_kernel: pure helpers                                                *)
(***************************************************************************)
\* mutant: strict comparisons, so a boundary value falls into the lower band
get_safety_level_strict(entropy) ==
    IF entropy > THRESHOLD_FAILSAFE_LOCKDOWN THEN "FAILSAFE_LOCKDOWN"
    ELSE IF entropy > THRESHOLD_CRITICAL THEN "CRITICAL"
    ELSE IF entropy > THRESHOLD_ASSET THEN "ASSET"
    ELSE "NOISE"

\* _get_safety_level(entropy)
_get_safety_level(entropy) ==
    IF entropy >= THRESHOLD_FAILSAFE_LOCKDOWN THEN "FAILSAFE_LOCKDOWN"
    ELSE IF entropy >= THRESHOLD_CRITICAL THEN "CRITICAL"
    ELSE IF entropy >= THRESHOLD_ASSET THEN "ASSET"
    ELSE "NOISE"

\* -math.log(num / den) / ENTROPY_FACTOR for num, den > 0
NegLogOverFactor(num, den) == ((Ln(den) - Ln(num)) * 100) \div EntropyFactorNum

\* _density_to_entropy(density), density = d / 1000
_density_to_entropy(d) ==
    IF d <= 0 THEN Infinity ELSE NegLogOverFactor(d, 1000)

\* entropy_from_zlib(text) -> (entropy_estimate, zlib_result), for a text
\* that encodes
entropy_from_zlib(t) ==
    LET original_size == ByteLen(t)
        compressed_size == zlib_compress_len(t)
        \* compression_ratio = compressed_size / original_size, or 1.0
        ratio_num == IF original_size > 0 THEN compressed_size ELSE 1
        ratio_den == IF original_size > 0 THEN original_size ELSE 1
        entropy_estimate ==
            IF ratio_num <= 0 THEN Infinity
            ELSE NegLogOverFactor(ratio_num, ratio_den)
    IN  <<entropy_estimate,
          [compressed_size |-> compressed_size,
           original_size |-> original_size,
           ratio_num |-> ratio_num, ratio_den |-> ratio_den,
           entropy_estimate |-> entropy_estimate]>>

(***************************************************************************)
(* The state machine.  One operation runs at a time: a caller invokes it   *)
(* from "idle"; calculate_entropy may wait at "provider" for the embedding *)
(* request to return or fail; "done" holds what the operation returned or  *)
(* raised until the caller takes it.                                        *)
(*   args          the arguments of the running operation                  *)
(*   calls         the components the operation has invoked, in order      *)
(*   provider_exc  the exception of the embedding request, or "none"       *)
(*   ret           the value returned by a pure function called directly   *)
(*   result, exc   what calculate_entropy returned / raised                *)
(*   decision      what check_circuit_breaker returned                     *)
(*   raised        the exception that escaped the operation to its caller  *)
(***************************************************************************)
NoArgs == [text |-> [valid |-> TRUE, chars |-> <<>>, pad |-> 0, zlen |-> 8],
           force_provider |-> "None", interface_type |-> "external"]

NoValue == [set |-> FALSE]

\* an exception that carries no response payload
NoResponse == [shape |-> "none"]

\* the classes of the exceptions of the model that derive from Exception
\* (all of them: none is a bare BaseException)
ExceptionClasses ==
    {"ValueError", "UnicodeEncodeError", "RuntimeError", "APIConnectionError",
     "AuthenticationError", "APITimeoutError", "IndexError"}

\* what the embedding request, or reading response.data[0].embedding, raises
ProviderFailures ==
    {"APIConnectionError", "AuthenticationError", "APITimeoutError", "IndexError"}

\* the L2 norms of the embeddings the provider returns, in thousandths
Densities == {0, 500, 1000, 1100}

\* the values uuid.uuid4() returns
Uuids == 1 .. MaxUuid

\* force_provider: the code only compares it with "zlib"
ForceProviders == {"None", "zlib"}

InterfaceTypes == {"external", "internal"}

\* entropy values handed to _get_safety_level directly: around each
\* threshold, zero, negative, and +inf
EntropySamples ==
    UNION {{th - 1, th, th + 1} :
             th \in {THRESHOLD_ASSET, THRESHOLD_CRITICAL, THRESHOLD_FAILSAFE_LOCKDOWN}}
      \cup {-Scale, 0, Infinity}

Raise(type, msg, response) ==
    [set |-> TRUE, type |-> type, msg |-> msg, response |-> response]

\* EntropyResult(...)
EntropyResult(entropy, provider, density, estimate) ==
    [set |-> TRUE, entropy |-> entropy,
     safety_level |-> _get_safety_level(entropy),
     entropy_provider |-> provider,
     semantic_density |-> density, zlib_estimate |-> estimate,
     encoding_unmeasurable |-> FALSE, encoding_reason |-> "None"]

\* mutant: the clause names the provider's API errors only
except_APIError(e) ==
    e.type \in {"APIConnectionError", "AuthenticationError", "APITimeoutError"}

\* a clause "except Exception" catches the exception e
except_Exception(e) == e.type \in ExceptionClasses

\* mutant: the breaker compares with the CRITICAL threshold
BreakerOnResultCritical(r) ==
    IF r.entropy >= THRESHOLD_CRITICAL
    THEN [set |-> TRUE, blocked |-> TRUE,
          reason |-> "Entropy exceeds asset threshold",
          entropy |-> r.entropy, threshold |-> THRESHOLD_ASSET]
    ELSE [set |-> TRUE, blocked |-> FALSE,
          reason |-> "Entropy within safe range",
          entropy |-> r.entropy, threshold |-> THRESHOLD_ASSET]

\* check_circuit_breaker, lines 401-416: calculate_entropy returned r
BreakerOnResult(r) ==
    IF r.entropy >= THRESHOLD_ASSET
    THEN [set |-> TRUE, blocked |-> TRUE,
          reason |-> "Entropy exceeds asset threshold",
          entropy |-> r.entropy, threshold |-> THRESHOLD_ASSET]
    ELSE [set |-> TRUE, blocked |-> FALSE,
          reason |-> "Entropy within safe range",
          entropy |-> r.entropy, threshold |-> THRESHOLD_ASSET]

\* mutant: the handler fails open
BreakerOnExceptionFailOpen(e) ==
    [set |-> TRUE, blocked |-> FALSE,
     reason |-> "Entropy calculation failed", cause |-> e.msg,
     entropy |-> 0, threshold |-> THRESHOLD_ASSET]

\* check_circuit_breaker, lines 417-425: calculate_entropy raised e
BreakerOnException(e) ==
    [set |-> TRUE, blocked |-> TRUE,
     reason |-> "Entropy calculation failed", cause |-> e.msg,
     entropy |-> Infinity, threshold |-> THRESHOLD_ASSET]

\* mutant: the fallback result is labelled like the forced one
FallbackResultMislabelled(t) ==
    LET est == entropy_from_zlib(t)
    IN  EntropyResult(est[1], EntropyProvider.ZLIB_PRIMARY, -1, est[2])

\* calculate_entropy, lines 371-381: the fallback after the request failed
FallbackResult(t) ==
    LET est == entropy_from_zlib(t)
    IN  EntropyResult(est[1], EntropyProvider.ZLIB_FALLBACK, -1, est[2])

\* calculate_entropy, lines 327-336: force_provider == "zlib"
ForcedResult(t) ==
    LET est == entropy_from_zlib(t)
    IN  EntropyResult(est[1], EntropyProvider.ZLIB_PRIMARY, -1, est[2])

\* calculate_entropy, lines 345-364: the request returned an embedding of
\* L2 norm d / 1000
EmbeddingResult(d) ==
    EntropyResult(_density_to_entropy(d), EntropyProvider.OPENAI, d, NoValue)

\* calculate_entropy ends: it returns r (r.set) or raises e (e.set).  Under
\* check_circuit_breaker the try/except of lines 398-425 turns either into a
\* decision; a direct caller gets the result or the exception.
Finish(the_op, r, e) ==
    /\ pc' = "done"
    /\ result' = r
    /\ exc' = e
    /\ IF the_op = "check_circuit_breaker"
       THEN IF r.set
            THEN decision' = BreakerOnResult(r) /\ raised' = NoValue
            ELSE IF except_Exception(e)
                 THEN decision' = BreakerOnException(e) /\ raised' = NoValue
                 ELSE decision' = NoValue /\ raised' = e
       ELSE decision' = NoValue /\ raised' = e

(***************************************************************************)
(* encoding_gate: EncodingGateMetrics                                      *)
(*   metrics    the fields of the one EncodingGateMetrics object           *)
(*   mret       what the last read operation returned                      *)
(*   threads    the callers running record_input / record_lockdown         *)
(*              concurrently, each with its position and loaded value      *)
(*   completed  how many calls have returned, by kind (bookkeeping of the  *)
(*              model, not a field of the object)                          *)
(***************************************************************************)
\* EncodingGateMetrics.__init__
NewMetrics ==
    [total_inputs |-> 0, unmeasurable_count |-> 0, false_positive_count |-> 0,
     lockdown_events |-> <<>>]

NoCalls == [record_input |-> 0, unmeasurable |-> 0, false_positive |-> 0,
            record_lockdown |-> 0]

\* no caller is inside a method of the object
NoThreads == [t \in {} |-> 0]

\* the state before any call: no kernel call in progress, a new metrics
\* object, no caller in it
MetricsInit ==
    /\ metrics = NewMetrics
    /\ mret = NoValue
    /\ threads = NoThreads
    /\ completed = NoCalls

Init ==
    /\ MetricsInit
    /\ regex \in BOOLEAN
    /\ pc = "idle"
    /\ op = "none"
    /\ args = NoArgs
    /\ calls = <<>>
    /\ provider_exc = "none"
    /\ ret = NoValue
    /\ result = NoValue
    /\ exc = NoValue
    /\ decision = NoValue
    /\ raised = NoValue

\* mutant: the forced zlib path is taken before the gate is consulted
EnterCalculateEntropyGateLate(the_op, t, force, itype) ==
    /\ op' = the_op
    /\ args' = [text |-> t, force_provider |-> force, interface_type |-> itype]
    /\ UNCHANGED <<regex, provider_exc, ret, mvars>>
    /\ IF TextLen(t) = 0 \/ EncodeFails(t)
       THEN /\ calls' = <<>>
            /\ Finish(the_op, NoValue,
                      Raise("ValueError", "Text cannot be empty", NoResponse))
       ELSE IF force = "zlib"
       THEN /\ calls' = <<"zlib">>
            /\ Finish(the_op, ForcedResult(t), NoValue)
       ELSE LET verdict == is_encoding_unmeasurable(t, regex)
            IN  IF verdict[1]
                THEN /\ calls' = <<"gate">>
                     /\ Finish(the_op, NoValue,
                               Raise("ValueError", "Encoding unmeasurable",
                                     get_rejection_response(verdict[2])))
                ELSE /\ calls' = <<"gate", "openai">>
                     /\ pc' = "provider"
                     /\ UNCHANGED <<result, exc, decision, raised>>

\* calculate_entropy(text, force_provider, interface_type), lines 306-336:
\* up to the embedding request
EnterCalculateEntropy(the_op, t, force, itype) ==
    /\ op' = the_op
    /\ args' = [text |-> t, force_provider |-> force, interface_type |-> itype]
    /\ UNCHANGED <<regex, provider_exc, ret, mvars>>
    /\ IF TextLen(t) = 0
       THEN /\ calls' = <<>>
            /\ Finish(the_op, NoValue,
                      Raise("ValueError", "Text cannot be empty", NoResponse))
       ELSE IF EncodeFails(t)
       THEN /\ calls' = <<>>
            /\ Finish(the_op, NoValue,
                      Raise("UnicodeEncodeError", "surrogates not allowed", NoResponse))
       ELSE LET verdict == is_encoding_unmeasurable(t, regex)
            IN  IF verdict[1]
                THEN IF itype = "external"
                     THEN /\ calls' = <<"gate">>
                          /\ Finish(the_op, NoValue,
                                    Raise("ValueError", "Encoding unmeasurable",
                                          get_rejection_response(verdict[2])))
                     ELSE \E incident_id \in Uuids :
                          /\ calls' = <<"gate", "uuid4">>
                          /\ Finish(the_op, NoValue,
                                    Raise("RuntimeError",
                                          "Encoding unmeasurable (LOCKDOWN)",
                                          get_lockdown_response(verdict[2], incident_id)))
                ELSE IF force = "zlib"
                THEN /\ calls' = <<"gate", "zlib">>
                     /\ Finish(the_op, ForcedResult(t), NoValue)
                ELSE /\ calls' = <<"gate", "openai">>
                     /\ pc' = "provider"
                     /\ UNCHANGED <<result, exc, decision, raised>>

\* a caller invokes calculate_entropy
CalculateEntropy ==
    /\ pc = "idle"
    /\ \E t \in Texts, force \in ForceProviders, itype \in InterfaceTypes :
        EnterCalculateEntropy("calculate_entropy", t, force, itype)

\* a caller invokes check_circuit_breaker(text), which calls
\* calculate_entropy(text) with the default arguments (line 399)
CheckCircuitBreaker ==
    /\ pc = "idle"
    /\ \E t \in Texts :
        EnterCalculateEntropy("check_circuit_breaker", t, "None", "external")

\* lines 340-364: the embedding request returns
ProviderReturns ==
    /\ pc = "provider"
    /\ \E d \in Densities : Finish(op, EmbeddingResult(d), NoValue)
    /\ UNCHANGED <<regex, op, args, calls, provider_exc, ret, mvars>>

\* lines 366-381: the embedding request, or reading its response, raises
ProviderFails ==
    /\ pc = "provider"
    /\ \E e \in ProviderFailures :
        /\ provider_exc' = e
        /\ IF except_Exception([type |-> e])
           THEN /\ calls' = Append(calls, "zlib")
                /\ Finish(op, FallbackResult(args.text), NoValue)
           ELSE /\ calls' = calls
                /\ Finish(op, NoValue, Raise(e, "provider", NoResponse))
    /\ UNCHANGED <<regex, op, args, ret, mvars>>

\* a direct call of a pure function ends at once
PureCall(the_op, a, value, e) ==
    /\ pc' = "done"
    /\ op' = the_op
    /\ args' = a
    /\ ret' = value
    /\ raised' = e
    /\ calls' = <<>>
    /\ UNCHANGED <<regex, provider_exc, result, exc, decision, mvars>>

\* is_encoding_unmeasurable(input_bytes) called directly
GateCall ==
    /\ pc = "idle"
    /\ \E b \in ByteStrings :
        PureCall("is_encoding_unmeasurable", [NoArgs EXCEPT !.text = b],
                 [set |-> TRUE, value |-> is_encoding_unmeasurable(b, regex)],
                 NoValue)

\* entropy_from_zlib(text) called directly
EstimatorCall ==
    /\ pc = "idle"
    /\ \E t \in Texts :
        IF EncodeFails(t)
        THEN PureCall("entropy_from_zlib", [NoArgs EXCEPT !.text = t], NoValue,
                      Raise("UnicodeEncodeError", "surrogates not allowed", NoResponse))
        ELSE PureCall("entropy_from_zlib", [NoArgs EXCEPT !.text = t],
                      [set |-> TRUE, value |-> entropy_from_zlib(t)], NoValue)

\* _get_safety_level(entropy) called directly
SafetyLevelCall ==
    /\ pc = "idle"
    /\ \E e \in EntropySamples :
        PureCall("_get_safety_level", NoArgs,
                 [set |-> TRUE, entropy |-> e, value |-> _get_safety_level(e)],
                 NoValue)

\* the caller takes what the operation returned or raised
Return ==
    /\ pc = "done"
    /\ pc' = "idle"
    /\ op' = "none"
    /\ args' = NoArgs
    /\ calls' = <<>>
    /\ provider_exc' = "none"
    /\ ret' = NoValue
    /\ result' = NoValue
    /\ exc' = NoValue
    /\ decision' = NoValue
    /\ raised' = NoValue
    /\ UNCHANGED <<regex, mvars>>

Next ==
    \/ CalculateEntropy
    \/ CheckCircuitBreaker
    \/ ProviderReturns
    \/ ProviderFails
    \/ GateCall
    \/ EstimatorCall
    \/ SafetyLevelCall
    \/ Return

Spec == Init /\ [][Next]_vars

(***************************************************************************)
(* The gate called on its own, with more byte strings than the kernel      *)
(* specification affords: texts of up to MaxRuns runs of equal code        *)
(* points, and periodic texts, long enough for the compression bound.      *)
(***************************************************************************)
RECURSIVE Repeat(_, _)
\* s * k
Repeat(s, k) == IF k = 0 THEN <<>> ELSE s \o Repeat(s, k - 1)

\* the runs of one code point: single code points and runs of MaxRunLen
Runs ==
    {Repeat(<<c>>, n) : c \in CharClass \ {"surrogate"}, n \in {1, MaxRunLen}}

RECURSIVE RunSeqs(_)
\* the texts of at most n runs
RunSeqs(n) ==
    IF n = 0 THEN {<<>>}
    ELSE LET shorter == RunSeqs(n - 1)
         IN  shorter \cup {s \o r : s \in shorter, r \in Runs}

\* a block repeated RepeatCount times
PeriodicSeqs ==
    {Repeat(cs, RepeatCount) :
        cs \in SeqsUpTo(CharClass \ {"surrogate"}, MaxBlock) \ {<<>>}}

\* the gate reads the compressed length only from 100 bytes on: below, one
\* length stands for all
GatePayloads(cs, p) ==
    {b \in Payloads(cs, p) : ByteLen(b) >= 100 \/ b.zlen = ByteLen(b) + 8}

GateByteStrings ==
    ByteStrings
      \cup UNION {GatePayloads(cs, p) : cs \in RunSeqs(MaxRuns), p \in {0, HugePad}}
      \cup UNION {GatePayloads(cs, 0) : cs \in PeriodicSeqs}

\* is_encoding_unmeasurable(input_bytes) called directly on any of them
GateOnlyCall ==
    /\ pc = "idle"
    /\ \E b \in GateByteStrings :
        PureCall("is_encoding_unmeasurable", [NoArgs EXCEPT !.text = b],
                 [set |-> TRUE, value |-> is_encoding_unmeasurable(b, regex)],
                 NoValue)

NextGate ==
    \/ GateOnlyCall
    \/ Return

SpecGate == Init /\ [][NextGate]_vars

(***************************************************************************)
(* EncodingGateMetrics, one caller at a time.  Each method is an operator  *)
(* from the object's fields to <<the fields after the call, the value      *)
(* returned>>; a rate is the fraction <<numerator, denominator>>.          *)
(***************************************************************************)
\* the timestamps callers pass to record_lockdown
Timestamps == {"2026-01-14T00:00:00Z"}

\* mutant: the unmeasurable count restarts at a measurable input
record_input_restarts(m, is_unmeasurable, is_false_positive) ==
    <<[m EXCEPT !.total_inputs = @ + 1,
                !.unmeasurable_count = IF is_unmeasurable THEN @ + 1 ELSE 0,
                !.false_positive_count = IF is_false_positive THEN @ + 1 ELSE @],
      NoValue>>

\* record_input(is_unmeasurable, is_false_positive)
record_input(m, is_unmeasurable, is_false_positive) ==
    <<[m EXCEPT !.total_inputs = @ + 1,
                !.unmeasurable_count = IF is_unmeasurable THEN @ + 1 ELSE @,
                !.false_positive_count = IF is_false_positive THEN @ + 1 ELSE @],
      NoValue>>

\* record_lockdown(incident_id, timestamp)
record_lockdown(m, incident_id, timestamp) ==
    <<[m EXCEPT !.lockdown_events =
                   Append(@, [incident_id |-> incident_id, timestamp |-> timestamp])],
      NoValue>>

\* get_false_positive_rate()
get_false_positive_rate(m) ==
    <<m, IF m.total_inputs = 0 THEN <<0, 1>>
         ELSE <<m.false_positive_count, m.total_inputs>>>>

\* get_unmeasurable_rate()
get_unmeasurable_rate(m) ==
    <<m, IF m.total_inputs = 0 THEN <<0, 1>>
         ELSE <<m.unmeasurable_count, m.total_inputs>>>>

\* check_health()
check_health(m) ==
    LET false_positive_rate == get_false_positive_rate(m)[2]
        unmeasurable_rate == get_unmeasurable_rate(m)[2]
    IN  <<m,
          [false_positive_rate |-> false_positive_rate,
           \* false_positive_rate < 0.01
           false_positive_ok |-> 100 * false_positive_rate[1] < false_positive_rate[2],
           unmeasurable_rate |-> unmeasurable_rate,
           total_inputs |-> m.total_inputs,
           unmeasurable_count |-> m.unmeasurable_count,
           lockdown_events_count |-> Len(m.lockdown_events)]>>

\* a method that runs from call to return with no other caller in between;
\* out is <<fields after, value returned>>
MethodCall(name, out, calls_after) ==
    /\ metrics' = out[1]
    /\ mret' = IF name \in {"record_input", "record_lockdown"} THEN NoValue
               ELSE [set |-> TRUE, method |-> name, value |-> out[2]]
    /\ completed' = calls_after
    /\ UNCHANGED <<kvars, threads>>

RecordInput ==
    /\ DOMAIN threads = {}
    /\ completed.record_input < MaxInputs
    /\ \E is_unmeasurable \in BOOLEAN, is_false_positive \in BOOLEAN :
         MethodCall("record_input",
                    record_input(metrics, is_unmeasurable, is_false_positive),
                    [completed EXCEPT
                       !.record_input = @ + 1,
                       !.unmeasurable = IF is_unmeasurable THEN @ + 1 ELSE @,
                       !.false_positive = IF is_false_positive THEN @ + 1 ELSE @])

RecordLockdown ==
    /\ DOMAIN threads = {}
    /\ completed.record_lockdown < MaxLockdowns
    /\ \E incident_id \in Uuids, timestamp \in Timestamps :
         MethodCall("record_lockdown",
                    record_lockdown(metrics, incident_id, timestamp),
                    [completed EXCEPT !.record_lockdown = @ + 1])

GetFalsePositiveRate ==
    /\ DOMAIN threads = {}
    /\ MethodCall("get_false_positive_rate", get_false_positive_rate(metrics), completed)

GetUnmeasurableRate ==
    /\ DOMAIN threads = {}
    /\ MethodCall("get_unmeasurable_rate", get_unmeasurable_rate(metrics), completed)

CheckHealth ==
    /\ DOMAIN threads = {}
    /\ MethodCall("check_health", check_health(metrics), completed)

NextMetrics ==
    \/ RecordInput
    \/ RecordLockdown
    \/ GetFalsePositiveRate
    \/ GetUnmeasurableRate
    \/ CheckHealth

SpecMetrics == Init /\ [][NextMetrics]_vars

(***************************************************************************)
(* EncodingGateMetrics shared by threads.  record_input takes no lock, and *)
(* self.x += 1 is a read of the attribute (LOAD_ATTR), an addition on the  *)
(* thread's own stack and a write (STORE_ATTR): another thread may run     *)
(* between the read and the write.  A thread inside record_input is        *)
(* [is_unmeasurable, is_false_positive, at, loaded]: `at` is the statement *)
(* it has reached, `loaded` the value it read and has not yet written      *)
(* back.  list.append is one step.                                         *)
(***************************************************************************)
Threads == 1 .. NumThreads

\* no attribute value on the thread's stack
NotLoaded == -1

\* the statement after the increment at line `at`: the two ifs
NextStatement(at, is_unmeasurable, is_false_positive) ==
    IF at = "total_inputs" /\ is_unmeasurable THEN "unmeasurable_count"
    ELSE IF at \in {"total_inputs", "unmeasurable_count"} /\ is_false_positive
         THEN "false_positive_count"
    ELSE "return"

\* thread t calls record_input(is_unmeasurable, is_false_positive)
ThreadCalls(t) ==
    /\ t \notin DOMAIN threads
    /\ completed.record_input + Cardinality(DOMAIN threads) < MaxInputs
    /\ \E is_unmeasurable \in BOOLEAN, is_false_positive \in BOOLEAN :
         threads' = threads @@ (t :> [is_unmeasurable |-> is_unmeasurable,
                                      is_false_positive |-> is_false_positive,
                                      at |-> "total_inputs",
                                      loaded |-> NotLoaded])
    /\ UNCHANGED <<kvars, metrics, mret, completed>>

\* self.<at> += 1, first half: read the attribute
ThreadLoads(t) ==
    /\ t \in DOMAIN threads
    /\ threads[t].at # "return"
    /\ threads[t].loaded = NotLoaded
    /\ threads' = [threads EXCEPT ![t].loaded = metrics[threads[t].at]]
    /\ UNCHANGED <<kvars, metrics, mret, completed>>

\* self.<at> += 1, second half: write the value read, plus one
ThreadStores(t) ==
    /\ t \in DOMAIN threads
    /\ threads[t].at # "return"
    /\ threads[t].loaded # NotLoaded
    /\ metrics' = [metrics EXCEPT ![threads[t].at] = threads[t].loaded + 1]
    /\ threads' = [threads EXCEPT
                     ![t].at = NextStatement(threads[t].at, threads[t].is_unmeasurable,
                                             threads[t].is_false_positive),
                     ![t].loaded = NotLoaded]
    /\ UNCHANGED <<kvars, mret, completed>>

\* record_input returns to thread t
ThreadReturns(t) ==
    /\ t \in DOMAIN threads
    /\ threads[t].at = "return"
    /\ completed' = [completed EXCEPT
                       !.record_input = @ + 1,
                       !.unmeasurable = IF threads[t].is_unmeasurable THEN @ + 1 ELSE @,
                       !.false_positive = IF threads[t].is_false_positive THEN @ + 1 ELSE @]
    /\ threads' = [u \in DOMAIN threads \ {t} |-> threads[u]]
    /\ UNCHANGED <<kvars, metrics, mret>>

\* some thread calls record_lockdown while others may be inside record_input
ThreadRecordsLockdown ==
    /\ completed.record_lockdown < MaxLockdowns
    /\ \E incident_id \in Uuids, timestamp \in Timestamps :
         metrics' = record_lockdown(metrics, incident_id, timestamp)[1]
    /\ completed' = [completed EXCEPT !.record_lockdown = @ + 1]
    /\ UNCHANGED <<kvars, mret, threads>>

NextConcurrent ==
    \/ \E t \in Threads : ThreadCalls(t)
    \/ \E t \in Threads : ThreadLoads(t)
    \/ \E t \in Threads : ThreadStores(t)
    \/ \E t \in Threads : ThreadReturns(t)
    \/ ThreadRecordsLockdown

SpecConcurrent == Init /\ [][NextConcurrent]_vars

(***************************************************************************)
(* Properties.                                                             *)
(***************************************************************************)
\* the operation in progress runs calculate_entropy
InKernel == op \in {"calculate_entropy", "check_circuit_breaker"}

\* calculate_entropy got past its own input checks and consulted the gate
Gated == InKernel /\ TextLen(args.text) > 0 /\ ~EncodeFails(args.text)

\* the gate's verdict on the text of the running call
Verdict == is_encoding_unmeasurable(args.text, regex)

\* the position of a band in NOISE < ASSET < CRITICAL < FAILSAFE_LOCKDOWN
BandRank(level) ==
    CASE level = "NOISE" -> 0
      [] level = "ASSET" -> 1
      [] level = "CRITICAL" -> 2
      [] level = "FAILSAFE_LOCKDOWN" -> 3

\* the band of an entropy value by the thresholds 5.0, 4.14 and 2.76
BandOf(e) ==
    IF e >= 5 * Scale THEN "FAILSAFE_LOCKDOWN"
    ELSE IF e >= 4 * Scale + 14 * (Scale \div 100) THEN "CRITICAL"
    ELSE IF e >= 2 * Scale + 76 * (Scale \div 100) THEN "ASSET"
    ELSE "NOISE"

\* C1: whenever the calculate_entropy call made by check_circuit_breaker
\* raised (empty text, unencodable text, gate rejection), the breaker raises
\* nothing and returns blocked = true with entropy = +inf.
C1_FailClosed ==
    (pc = "done" /\ op = "check_circuit_breaker" /\ exc.set)
        => /\ ~raised.set
           /\ decision.set
           /\ decision.blocked
           /\ decision.entropy = Infinity

\* C1 witness: the breaker has answered a gate rejection
C1_Witness ==
    /\ pc = "done" /\ op = "check_circuit_breaker"
    /\ exc.set /\ exc.response.shape = "rejection"
    /\ decision.set /\ decision.blocked

\* C2: once the embedding request of a call has failed, in any of the four
\* ways, calculate_entropy ends without raising and returns the compression
\* estimator's value for the text with provider zlib_fallback.
C2_ProviderFallback ==
    (InKernel /\ provider_exc # "none")
        => /\ pc = "done"
           /\ ~exc.set
           /\ result.set
           /\ result.entropy_provider = "zlib_fallback"
           /\ result.entropy = entropy_from_zlib(args.text)[1]
           /\ result.zlib_estimate = entropy_from_zlib(args.text)[2]
           /\ op = "calculate_entropy" => ~raised.set

\* C2 witness: a direct call whose embedding response was malformed
C2_Witness ==
    /\ pc = "done" /\ op = "calculate_entropy"
    /\ provider_exc = "IndexError"
    /\ result.set /\ result.entropy_provider = "zlib_fallback"

\* C3: in a call of calculate_entropy, the provider and the estimator are
\* only ever invoked after the gate, and on an unmeasurable text the call has
\* raised with neither of them invoked, whatever force_provider and
\* interface_type are.
C3_GateBeforeEntropy ==
    InKernel
        => /\ \A i \in DOMAIN calls :
                calls[i] \in {"openai", "zlib"}
                    => \E j \in 1 .. (i - 1) : calls[j] = "gate"
           /\ result.set => (Len(calls) > 0 /\ calls[1] = "gate")
           /\ (Gated /\ Verdict[1])
                => /\ pc = "done"
                   /\ exc.set
                   /\ ~result.set
                   /\ \A i \in DOMAIN calls : calls[i] \notin {"openai", "zlib"}

\* C3 witness: forced zlib on an unmeasurable text, rejected at the gate
C3_Witness ==
    /\ pc = "done" /\ op = "calculate_entropy"
    /\ args.force_provider = "zlib"
    /\ Gated /\ Verdict[1]
    /\ exc.set /\ calls[1] = "gate"

\* C4: on an unmeasurable text calculate_entropy raises, for
\* interface_type = external, a ValueError carrying the rejection payload
\* with the gate's reason code, and for interface_type = internal a
\* RuntimeError carrying the lockdown payload with the same reason code and
\* the identifier uuid4 generated in this call.
C4_TrustBoundaryShape ==
    (pc = "done" /\ Gated /\ Verdict[1])
        => /\ exc.set
           /\ IF args.interface_type = "external"
              THEN /\ exc.type = "ValueError"
                   /\ exc.response.shape = "rejection"
                   /\ exc.response.error = Verdict[2]
              ELSE /\ exc.type = "RuntimeError"
                   /\ exc.response.shape = "lockdown"
                   /\ exc.response.status = "FAILSAFE_LOCKDOWN"
                   /\ exc.response.reason = Verdict[2]
                   /\ exc.response.incident_id \in Uuids
                   /\ calls = <<"gate", "uuid4">>

\* C4 witness: an internal call locked down on a random-noise text
C4_Witness ==
    /\ pc = "done" /\ op = "calculate_entropy"
    /\ args.interface_type = "internal"
    /\ exc.set /\ exc.type = "RuntimeError"
    /\ exc.response.shape = "lockdown"
    /\ exc.response.reason = "SICT_RANDOM_NOISE_SIGNATURE"

\* C5: _get_safety_level returns FAILSAFE_LOCKDOWN from 5.0, CRITICAL from
\* 4.14, ASSET from 2.76 and NOISE below, +inf included; no larger sample
\* gets a lower band; every EntropyResult carries the band of its entropy.
C5_SafetyBands ==
    /\ (pc = "done" /\ op = "_get_safety_level")
         => /\ ret.value = BandOf(ret.entropy)
            /\ \A e \in EntropySamples :
                 e >= ret.entropy
                    => BandRank(_get_safety_level(e)) >= BandRank(ret.value)
    /\ result.set => result.safety_level = BandOf(result.entropy)

\* C5 witness: the boundary value 4.14 was classified CRITICAL
C5_Witness ==
    /\ pc = "done" /\ op = "_get_safety_level"
    /\ ret.entropy = 4 * Scale + 14 * (Scale \div 100)
    /\ ret.value = "CRITICAL"

\* C6: when calculate_entropy returned a result to check_circuit_breaker,
\* the decision is blocked exactly when the entropy is at least 2.76, carries
\* that entropy and the threshold 2.76, and is unblocked exactly when the
\* band is NOISE.
C6_BreakerThreshold ==
    (pc = "done" /\ op = "check_circuit_breaker" /\ result.set)
        => /\ decision.set
           /\ ~raised.set
           /\ decision.blocked = (result.entropy >= 2 * Scale + 76 * (Scale \div 100))
           /\ decision.entropy = result.entropy
           /\ decision.threshold = 2 * Scale + 76 * (Scale \div 100)
           /\ (~decision.blocked) = (result.safety_level = "NOISE")

\* C6 witness: an ASSET-band result (3.85, below 4.14) was blocked
C6_Witness ==
    /\ pc = "done" /\ op = "check_circuit_breaker"
    /\ result.set /\ result.safety_level = "ASSET"
    /\ decision.set /\ decision.blocked

\* the reason codes as the specification spells them
SpecReasonCodes ==
    {"OK", "UTF8_DECODE_FAILURE", "NORMALIZATION_AMBIGUITY",
     "EMOJI_DENSITY_EXCEEDED", "RANDOM_NOISE_SIGNATURE", "ENTROPY_OUT_OF_BOUNDS"}

\* the reason codes as the gate returns them
WireReasonCodes ==
    {"OK", "SICT_UTF8_DECODE_FAILURE", "SICT_NORMALIZATION_AMBIGUITY",
     "SICT_EMOJI_DENSITY_EXCEEDED", "SICT_RANDOM_NOISE_SIGNATURE",
     "SICT_ENTROPY_OUT_OF_BOUNDS"}

\* the reason codes in what the finished operation returned or raised
ReasonCodesOut ==
    (IF op = "is_encoding_unmeasurable" /\ ret.set THEN {ret.value[2]} ELSE {})
      \cup (IF exc.set /\ exc.response.shape = "rejection"
            THEN {exc.response.error} ELSE {})
      \cup (IF exc.set /\ exc.response.shape = "lockdown"
            THEN {exc.response.reason} ELSE {})

\* C7 as stated: every reason code the gate returns, or a payload carries,
\* is one of OK, UTF8_DECODE_FAILURE, NORMALIZATION_AMBIGUITY,
\* EMOJI_DENSITY_EXCEEDED, RANDOM_NOISE_SIGNATURE, ENTROPY_OUT_OF_BOUNDS, and
\* it is OK exactly when the verdict is measurable.
C7_Original ==
    /\ ReasonCodesOut \subseteq SpecReasonCodes
    /\ (op = "is_encoding_unmeasurable" /\ ret.set)
         => ((ret.value[2] = "OK") = ~ret.value[1])

\* C7 amended: every reason code the gate returns, or a payload carries, is
\* one of OK, SICT_UTF8_DECODE_FAILURE, SICT_NORMALIZATION_AMBIGUITY,
\* SICT_EMOJI_DENSITY_EXCEEDED, SICT_RANDOM_NOISE_SIGNATURE,
\* SICT_ENTROPY_OUT_OF_BOUNDS; the gate's code is OK exactly when the verdict
\* is measurable, and a payload never carries OK.
C7_WireReasonCodes ==
    /\ ReasonCodesOut \subseteq WireReasonCodes
    /\ (op = "is_encoding_unmeasurable" /\ ret.set)
         => ((ret.value[2] = "OK") = ~ret.value[1])
    /\ exc.set => "OK" \notin ReasonCodesOut

\* C7 witness: the gate, called directly, found a run of unnamed code points
C7_Witness ==
    /\ pc = "done" /\ op = "is_encoding_unmeasurable"
    /\ ret.set /\ ret.value[1]
    /\ ret.value[2] = "SICT_RANDOM_NOISE_SIGNATURE"

\* the breaker has answered a call whose embedding request timed out
BreakerAfterTimeout ==
    pc = "done" /\ op = "check_circuit_breaker" /\ provider_exc = "APITimeoutError"

\* C8 as stated: after a provider timeout the breaker's decision carries
\* provider = CompressionFallback (zlib_fallback), is derived from the
\* fallback entropy, and nothing is raised.
C8_Original ==
    BreakerAfterTimeout
        => /\ ~raised.set
           /\ decision.set
           /\ decision.entropy = entropy_from_zlib(args.text)[1]
           /\ "provider" \in DOMAIN decision
           /\ decision["provider"] = "zlib_fallback"

\* C8 amended: after a provider timeout the breaker raises nothing and
\* returns a decision derived from the fallback result, whose provider is
\* zlib_fallback: the decision's entropy is the compression estimator's value
\* for the text (finite, not the fail-closed +inf), it is blocked exactly
\* when that value is at least 2.76, and the decision itself has no provider
\* field.
C8_BreakerUnderTimeout ==
    BreakerAfterTimeout
        => /\ ~raised.set
           /\ ~exc.set
           /\ result.set
           /\ result.entropy_provider = "zlib_fallback"
           /\ decision.set
           /\ decision.entropy = entropy_from_zlib(args.text)[1]
           /\ decision.entropy # Infinity
           /\ decision.reason # "Entropy calculation failed"
           /\ decision.blocked = (decision.entropy >= 2 * Scale + 76 * (Scale \div 100))
           /\ "provider" \notin DOMAIN decision

\* C8 witness: after a timeout the breaker let a text through on its
\* fallback entropy
C8_Witness ==
    /\ BreakerAfterTimeout
    /\ decision.set /\ ~decision.blocked
    /\ result.set /\ result.entropy_provider = "zlib_fallback"

\* C9: every result of calculate_entropy that comes from the compression
\* estimator (forced or fallback), hence for a text the gate admitted, has
\* entropy >= 0, its compressed size being at most its original size.
C9_NoNegativeEntropy ==
    (pc = "done" /\ InKernel /\ result.set
       /\ result.entropy_provider \in {"zlib_primary", "zlib_fallback"})
        => /\ result.entropy >= 0
           /\ result.zlib_estimate.compressed_size
                <= result.zlib_estimate.original_size

\* C10: on a payload of compression ratio below 0.05, which the gate marks
\* ENTROPY_OUT_OF_BOUNDS, entropy_from_zlib returns an entropy below 2.76,
\* which _get_safety_level places in the NOISE band.
C10_HighlyCompressibleIsNoise ==
    (pc = "done" /\ op = "entropy_from_zlib" /\ ret.set
       /\ 20 * ret.value[2].compressed_size < ret.value[2].original_size
       /\ is_encoding_unmeasurable(args.text, regex)
            = <<TRUE, "SICT_ENTROPY_OUT_OF_BOUNDS">>)
        => /\ ret.value[1] < 2 * Scale + 76 * (Scale \div 100)
           /\ _get_safety_level(ret.value[1]) = "NOISE"

\* sequence s is an initial part of sequence t
IsPrefix(s, t) == Len(s) <= Len(t) /\ SubSeq(t, 1, Len(s)) = s

\* C11: in every step of a sequence of record_input, record_lockdown,
\* get_false_positive_rate, get_unmeasurable_rate and check_health calls,
\* total_inputs, unmeasurable_count and false_positive_count do not decrease
\* and the lockdown records are kept and only appended to; a step in
\* which a read operation returned leaves all four unchanged.
C11_CountersMonotone ==
    [][/\ metrics'.total_inputs >= metrics.total_inputs
       /\ metrics'.unmeasurable_count >= metrics.unmeasurable_count
       /\ metrics'.false_positive_count >= metrics.false_positive_count
       /\ IsPrefix(metrics.lockdown_events, metrics'.lockdown_events)
       /\ mret'.set => metrics' = metrics]_vars

\* C11 witness: check_health has returned on an object that has counted
\* unmeasurable and false-positive inputs and holds a lockdown record
C11_Witness ==
    /\ mret.set /\ mret.method = "check_health"
    /\ metrics.total_inputs >= 2
    /\ metrics.unmeasurable_count >= 2
    /\ metrics.false_positive_count >= 1
    /\ Len(metrics.lockdown_events) >= 1
    /\ mret.value.total_inputs = metrics.total_inputs

\* the gate, called directly, has returned
GateReturned == pc = "done" /\ op = "is_encoding_unmeasurable" /\ ret.set

\* the criteria after the decode and empty checks, by the names of their
\* reason codes, in the order the specification gives them
CriteriaOrder ==
    <<"NORMALIZATION_AMBIGUITY", "EMOJI_DENSITY_EXCEEDED",
      "RANDOM_NOISE_SIGNATURE", "ENTROPY_OUT_OF_BOUNDS">>

\* the positions in CriteriaOrder of the criteria that byte string b matches
Matching(b, have_regex) ==
    {i \in DOMAIN CriteriaOrder :
        CASE i = 1 -> NormalizationAmbiguity(b)
          [] i = 2 -> EmojiDensity(b, have_regex)
          [] i = 3 -> RandomNoise(b)
          [] i = 4 -> OutOfBounds(b)}

\* the least element of a non-empty set of numbers
Least(S) == CHOOSE i \in S : \A j \in S : i <= j

\* C12: bytes that do not decode give UTF8_DECODE_FAILURE; empty decoded
\* text gives OK; any other text gives the reason code of the earliest
\* criterion it matches in the order normalization ambiguity, emoji density,
\* random-noise run, compression-ratio bounds, whatever later criteria it
\* matches as well, and OK only when it matches none.
C12_GateCheckOrder ==
    GateReturned =>
        LET b == args.text
            matching == Matching(b, regex)
        IN  ret.value =
              IF ~b.valid
              THEN <<TRUE, EncodingUnmeasurableReason.UTF8_DECODE_FAILURE>>
              ELSE IF TextLen(b) = 0 \/ matching = {}
              THEN <<FALSE, EncodingUnmeasurableReason.OK>>
              ELSE <<TRUE, EncodingUnmeasurableReason[CriteriaOrder[Least(matching)]]>>

\* C12 witness: the gate answered EMOJI_DENSITY_EXCEEDED for a text that
\* also has a run of three unnamed code points
C12_Witness ==
    /\ GateReturned
    /\ Matching(args.text, regex) = {2, 3}
    /\ ret.value = <<TRUE, EncodingUnmeasurableReason.EMOJI_DENSITY_EXCEEDED>>

\* code point i of text b has a name; the padding after the prefix is letters
NamedAt(b, i) == i > Len(b.chars) \/ HasName(b.chars[i])

\* text b has three consecutive code points without a name
ThreeUnnamed(b) ==
    \E i \in 1 .. Len(b.chars) - 2 : \A j \in i .. i + 2 : ~NamedAt(b, j)

\* the longest run of unnamed code points of text b is at most two
RunsAtMostTwo(b) ==
    \A i \in 1 .. Len(b.chars) - 2 : \E j \in i .. i + 2 : NamedAt(b, j)

\* C13: for a non-empty text that the normalization and emoji checks let
\* through, the gate returns RANDOM_NOISE_SIGNATURE if the text has three
\* consecutive unnamed code points and does not return it if its longest run
\* of unnamed code points is at most two; and it returns
\* RANDOM_NOISE_SIGNATURE for no text without three consecutive unnamed
\* code points.
C13_RandomNoiseRun ==
    GateReturned =>
        LET b == args.text
            noise == <<TRUE, EncodingUnmeasurableReason.RANDOM_NOISE_SIGNATURE>>
            reaches_scan == /\ b.valid /\ TextLen(b) > 0
                            /\ ~NormalizationAmbiguity(b)
                            /\ ~EmojiDensity(b, regex)
        IN  /\ (reaches_scan /\ ThreeUnnamed(b)) => ret.value = noise
            /\ (reaches_scan /\ RunsAtMostTwo(b)) => ret.value # noise
            /\ ret.value = noise => ThreeUnnamed(b)

\* C13 witness: a text in which runs of two unnamed code points are
\* separated by named ones passed the scan
C13_Witness ==
    /\ GateReturned
    /\ RunsAtMostTwo(args.text)
    /\ \E i \in 1 .. Len(args.text.chars) - 3 :
          /\ ~NamedAt(args.text, i) /\ ~NamedAt(args.text, i + 1)
          /\ NamedAt(args.text, i + 2) /\ ~NamedAt(args.text, i + 3)
    /\ ret.value[2] # EncodingUnmeasurableReason.RANDOM_NOISE_SIGNATURE

\* C14: whenever every record_input call that was started has completed,
\* total_inputs is the number of completed calls, unmeasurable_count the
\* number of them with is_unmeasurable true, false_positive_count the number
\* with is_false_positive true, and there is one lockdown record per
\* record_lockdown call: no interleaving of concurrent callers loses an update.
C14_NoLostUpdate ==
    DOMAIN threads = {} =>
        /\ metrics.total_inputs = completed.record_input
        /\ metrics.unmeasurable_count = completed.unmeasurable
        /\ metrics.false_positive_count = completed.false_positive
        /\ Len(metrics.lockdown_events) = completed.record_lockdown

====
